---- MODULE Spec2Model ----
(***************************************************************************)
(* updatectl (src/main.go): the watch daemon.  The scheduler loop of       *)
(* watchCmd calls updateProject for every configured project, then sleeps; *)
(* updateProject checks the path, pulls, looks for the no-op marker in the *)
(* pull output, runs the build command and performs the type-specific      *)
(* action.  The external world (file system, git, the shell, pm2) is the   *)
(* environment: each external call returns a nondeterministic answer.      *)
(***************************************************************************)
EXTENDS Naturals, Sequences, FiniteSets, TLC

\* Largest number of projects in a configuration.
MaxProjects == 3

\* Largest number of projects in a configuration whose previous pass is remembered.
MaxRemembered == 2

\* Longest time, in minutes, one call of updateProject takes in the timed runs.
MaxDuration == 2

\* Largest intervalMinutes of the timed runs.
MaxInterval == 2

\* Largest number of arguments given to the build command.
MaxArgs == 2

\* intervalMinutes of the configuration written by init (line 74).
DefaultInterval == 10

(***************************************************************************)
(* Configuration: type Project, type Config.                               *)
(***************************************************************************)
Project(name, path, type, buildCommand) ==
    [Name |-> name, Path |-> path, Repo |-> "https://example.org/" \o name \o ".git",
     Type |-> type, BuildCommand |-> buildCommand]

ProjA == Project("A", "/srv/a", "static", "")
ProjB == Project("B", "/srv/b", "pm2", "npm run build")
ProjC == Project("C", "/srv/c", "docker", "docker compose up -d --build")
ProjV == Project("V", "/srv/v", "vm", "make deploy")

\* Project definitions of the multi-project configurations.
ProjectPool == {ProjA, ProjB, ProjC}

SeqsUpTo(S, n) == UNION {[1..k -> S] : k \in 0..n}

\* The project lists loadConfig may return.
Configs == SeqsUpTo(ProjectPool, MaxProjects)

\* The project lists of the runs checked for progress.
LiveConfigs == SeqsUpTo({ProjB, ProjV}, MaxProjects)

\* The project lists of the runs that remember the previous pass.
RememberedConfigs == SeqsUpTo({ProjA, ProjC}, MaxRemembered)

\* Values of the type and buildCommand fields.
Types == {"docker", "pm2", "static", "vm"}
BuildCommands == {"", "make deploy"}

\* Single-project configurations, of every type, with and without a build command.
SingleConfigs == {<<Project("P", "/srv/p", t, b)>> : t \in Types, b \in BuildCommands}

(***************************************************************************)
(* Environment: what the external commands can answer.                     *)
(***************************************************************************)
\* The literal searched for in the pull output (line 251).
Marker == "Already up to date."

OutUpToDate        == "Already up to date.\n"
OutFetchedUpToDate == "From origin\n   1a2b..3c4d  dev -> origin/dev\nAlready up to date.\n"
OutFastForward     == "Updating 1a2b..3c4d\nFast-forward\n"
OutMerge           == "Merge made by the 'ort' strategy.\n"
OutOldNoOp         == "Already up-to-date.\n"
OutQuiet           == ""
OutFatal           == "fatal: unable to access 'origin'\n"

PullResult(err, text, merged) == [err |-> err, output |-> text, merged |-> merged]

\* Answers of `git -C path pull`: the error, the combined output, and whether
\* the pull merged new upstream commits into the working copy.
PullResults ==
    { PullResult(TRUE,  OutFatal, FALSE),
      PullResult(FALSE, OutFetchedUpToDate, FALSE),
      PullResult(FALSE, OutFastForward, TRUE) }

\* The same with more wordings of git: a bare no-op, a merge, the no-op
\* wording of git before 2.15, a quiet pull, a failure that prints the marker.
AllPullResults ==
    PullResults \cup
    { PullResult(FALSE, OutUpToDate, FALSE),
      PullResult(FALSE, OutMerge, TRUE),
      PullResult(FALSE, OutOldNoOp, FALSE),
      PullResult(FALSE, OutQuiet, TRUE),
      PullResult(TRUE,  OutUpToDate, FALSE) }

\* The answers of the external commands during one call of updateProject.
Envs(results) ==
    [notExist : BOOLEAN, pull : results, buildErr : BOOLEAN, restartErr : BOOLEAN]

(***************************************************************************)
(* State.                                                                  *)
(***************************************************************************)
VARIABLES
    config,     \* config.Projects, as loaded by watchCmd
    pc,         \* position of the daemon: "loop" (range loop) or "sleep" (in time.Sleep)
    idx,        \* index of the range loop over config.Projects
    log,        \* the current pass: lines printed, external calls, control points
    prevLog,    \* the same for the previous pass, where it is remembered
    interval,   \* config.IntervalMinutes
    clock,      \* time, in minutes: elapsed since the current pass started, the
                \* duration of the previous pass, the gap between the starts of the
                \* previous and the current pass, whether there is a previous pass
    argv,       \* the command line after the program's name: the command
                \* and its arguments
    banner      \* what watchCmd printed before its loop (line 163)

vars == <<config, pc, idx, log, prevLog, interval, clock, argv, banner>>

\* The args of the command's Run, and projectName := args[0] (line 180).
cmdArgs == Tail(argv)
projectName == cmdArgs[1]

\* The clock when the command starts.
ClockZero == [elapsed |-> 0, duration |-> 0, gap |-> 0, woke |-> FALSE]

\* A step of the daemon in the runs that do not measure time.
Untimed == UNCHANGED <<interval, clock, argv, banner>>

\* strings.Contains
Contains(s, substr) ==
    \E k \in 0..(Len(s) - Len(substr)) : SubSeq(s, k + 1, k + Len(substr)) = substr

Event(i, kind, op, args, dir, err, text, merged) ==
    [proj |-> i, kind |-> kind, op |-> op, args |-> args, dir |-> dir,
     err |-> err, output |-> text, merged |-> merged]

\* An external call made for the project at index i, with its answer.
Call(i, op, args, dir, err, text, merged) ==
    Event(i, "call", op, args, dir, err, text, merged)

\* fmt.Println(msg, arg); fmt.Print(text) is Line(i, "", text).
Line(i, msg, arg) == Event(i, "print", msg, <<arg>>, "", FALSE, "", FALSE)

\* A control point of updateProject: the type switch, the return.
Step(i, label) == Event(i, "step", label, <<>>, "", FALSE, "", FALSE)

\* watchCmd, line 163: the line printed between loadConfig and the loop, n
\* being config.IntervalMinutes.
Banner(n) == Line(0, "Running updatectl every %d minutes...", n)

\* A plausible slip: cmd.Dir is never set.
runBuildCommandNoDir(i, command, dir, err) ==
    <<Call(i, "bash", <<"-c", command>>, "", err, "", FALSE)>>

\* runBuildCommand on a non-Windows host: bash -c command, run in dir.
runBuildCommand(i, command, dir, err) ==
    <<Call(i, "bash", <<"-c", command>>, dir, err, "", FALSE)>>

\* A plausible slip: the missing path is reported but the function goes on.
PathStepNoReturn(i, p, env) ==
    IF env.notExist
    THEN [events |-> <<Line(i, "Path not found:", p.Path)>>, goOn |-> TRUE]
    ELSE [events |-> <<>>, goOn |-> TRUE]

\* updateProject, lines 237-240, once os.Stat has returned: what is printed,
\* and whether the function goes on to the pull.
PathStep(i, p, env) ==
    IF env.notExist
    THEN [events |-> <<Line(i, "Path not found:", p.Path)>>, goOn |-> FALSE]
    ELSE [events |-> <<>>, goOn |-> TRUE]

\* A plausible slip: the pull's error is reported but the function goes on.
PullStepNoReturn(i, p, env) ==
    IF env.pull.err
    THEN [events |-> <<Line(i, "Git pull failed:", "exit status 1")>>, goOn |-> TRUE]
    ELSE IF Contains(env.pull.output, Marker)
    THEN [events |-> <<Line(i, "", env.pull.output), Line(i, "No new commits for", p.Name)>>,
          goOn |-> FALSE]
    ELSE [events |-> <<Line(i, "", env.pull.output)>>, goOn |-> TRUE]

\* A plausible slip: strings.HasPrefix in place of strings.Contains.
PullStepHasPrefix(i, p, env) ==
    IF env.pull.err
    THEN [events |-> <<Line(i, "Git pull failed:", "exit status 1")>>, goOn |-> FALSE]
    ELSE IF Len(env.pull.output) >= Len(Marker)
            /\ SubSeq(env.pull.output, 1, Len(Marker)) = Marker
    THEN [events |-> <<Line(i, "", env.pull.output), Line(i, "No new commits for", p.Name)>>,
          goOn |-> FALSE]
    ELSE [events |-> <<Line(i, "", env.pull.output)>>, goOn |-> TRUE]

\* updateProject, lines 245-254, once the pull has returned: what is printed,
\* and whether the function goes on to the build and the type switch.
PullStep(i, p, env) ==
    IF env.pull.err
    THEN [events |-> <<Line(i, "Git pull failed:", "exit status 1")>>, goOn |-> FALSE]
    ELSE IF Contains(env.pull.output, Marker)
    THEN [events |-> <<Line(i, "", env.pull.output), Line(i, "No new commits for", p.Name)>>,
          goOn |-> FALSE]
    ELSE [events |-> <<Line(i, "", env.pull.output)>>, goOn |-> TRUE]

\* A plausible slip: the build command is run without checking that there is one.
BuildStepNoEmptyCheck(i, p, env) ==
    <<Line(i, "-> Running build command for", p.Name)>>
    \o runBuildCommand(i, p.BuildCommand, p.Path, env.buildErr)

\* updateProject, lines 256-259: the build command, when there is one.
BuildStep(i, p, env) ==
    IF p.BuildCommand # ""
    THEN <<Line(i, "-> Running build command for", p.Name)>>
         \o runBuildCommand(i, p.BuildCommand, p.Path, env.buildErr)
    ELSE <<>>

\* A plausible slip: the process is restarted by the project's path.
TypeSwitchRestartByPath(i, p, env) ==
    CASE p.Type = "pm2" ->
           <<Line(i, "-> Restarting PM2 process:", p.Name),
             Call(i, "pm2", <<"restart", p.Path>>, "", env.restartErr, "", FALSE)>>
      [] p.Type = "docker" -> <<>>
      [] p.Type = "static" -> <<>>
      [] OTHER -> <<Line(i, "Unknown type:", p.Type)>>

\* A plausible slip: the default branch restarts the process like pm2.
TypeSwitchDefaultRestart(i, p, env) ==
    CASE p.Type = "docker" -> <<>>
      [] p.Type = "static" -> <<>>
      [] OTHER ->
           <<Line(i, "-> Restarting PM2 process:", p.Name),
             Call(i, "pm2", <<"restart", p.Name>>, "", env.restartErr, "", FALSE)>>

\* updateProject, lines 261-274: the branches of the switch on the project type.
TypeSwitch(i, p, env) ==
    CASE p.Type = "pm2" ->
           <<Line(i, "-> Restarting PM2 process:", p.Name),
             Call(i, "pm2", <<"restart", p.Name>>, "", env.restartErr, "", FALSE)>>
      [] p.Type = "docker" -> <<>>
      [] p.Type = "static" -> <<>>
      [] OTHER -> <<Line(i, "Unknown type:", p.Type)>>

\* A plausible slip: fail fast, no dispatch after a failed build.
DispatchStepUnlessBuildFailed(i, p, env) ==
    IF p.BuildCommand # "" /\ env.buildErr
    THEN <<>>
    ELSE <<Step(i, "switch")>> \o TypeSwitch(i, p, env)

\* updateProject, lines 261-275: the dispatch step.
DispatchStep(i, p, env) ==
    <<Step(i, "switch")>> \o TypeSwitch(i, p, env)

\* A retry: a pull that failed is attempted a second time at once.
updateProjectRetryPull(i, p, env) ==
    LET stat == Call(i, "stat", <<p.Path>>, "", env.notExist, "", FALSE)
        pull == Call(i, "git", <<"-C", p.Path, "pull">>, "",
                     env.pull.err, env.pull.output, env.pull.merged)
        afterPull ==
            <<Line(i, "-> Pulling latest changes for", p.Name), pull>>
            \o (IF env.pull.err THEN <<pull>> ELSE <<>>)
            \o PullStep(i, p, env).events
            \o (IF PullStep(i, p, env).goOn
                THEN BuildStep(i, p, env) \o DispatchStep(i, p, env)
                ELSE <<>>)
    IN  <<stat>>
        \o PathStep(i, p, env).events
        \o (IF PathStep(i, p, env).goOn THEN afterPull ELSE <<>>)
        \o <<Step(i, "return")>>

\* A plausible slip: the dispatch is made before the build.
updateProjectDispatchFirst(i, p, env) ==
    LET stat == Call(i, "stat", <<p.Path>>, "", env.notExist, "", FALSE)
        pull == Call(i, "git", <<"-C", p.Path, "pull">>, "",
                     env.pull.err, env.pull.output, env.pull.merged)
        afterPull ==
            <<Line(i, "-> Pulling latest changes for", p.Name), pull>>
            \o PullStep(i, p, env).events
            \o (IF PullStep(i, p, env).goOn
                THEN DispatchStep(i, p, env) \o BuildStep(i, p, env)
                ELSE <<>>)
    IN  <<stat>>
        \o PathStep(i, p, env).events
        \o (IF PathStep(i, p, env).goOn THEN afterPull ELSE <<>>)
        \o <<Step(i, "return")>>

\* updateProject(p) for the project at index i, with the answers env of the
\* external commands: the events of the call, in order.
updateProject(i, p, env) ==
    LET stat == Call(i, "stat", <<p.Path>>, "", env.notExist, "", FALSE)
        pull == Call(i, "git", <<"-C", p.Path, "pull">>, "",
                     env.pull.err, env.pull.output, env.pull.merged)
        afterPull ==
            <<Line(i, "-> Pulling latest changes for", p.Name), pull>>
            \o PullStep(i, p, env).events
            \o (IF PullStep(i, p, env).goOn
                THEN BuildStep(i, p, env) \o DispatchStep(i, p, env)
                ELSE <<>>)
    IN  <<stat>>
        \o PathStep(i, p, env).events
        \o (IF PathStep(i, p, env).goOn THEN afterPull ELSE <<>>)
        \o <<Step(i, "return")>>

\* The state when watchCmd enters its loop with the projects of one of configs.
Start(configs) ==
    /\ config \in configs
    /\ pc = "loop"
    /\ idx = 1
    /\ log = <<>>
    /\ prevLog = <<>>

\* A plausible slip: a project that fails ends the pass (break on failure).
LoopBodyBreakOnFailure(results) ==
    /\ pc = "loop"
    /\ idx <= Len(config)
    /\ \E env \in Envs(results) :
          /\ log' = log \o <<Line(idx, "Checking", config[idx].Name)>>
                        \o updateProject(idx, config[idx], env)
          /\ idx' = IF env.notExist \/ env.pull.err THEN Len(config) + 1 ELSE idx + 1
    /\ UNCHANGED <<config, pc, prevLog>>

\* A forced rebuild: a project whose build failed in the previous pass is
\* built and dispatched again although its pull brought nothing new.
LoopBodyRebuildFailed(results) ==
    /\ pc = "loop"
    /\ idx <= Len(config)
    /\ \E env \in Envs(results) :
          LET p == config[idx]
              es == updateProject(idx, p, env)
              failedBefore ==
                  \E k \in 1..Len(prevLog) :
                      prevLog[k].proj = idx /\ prevLog[k].op = "bash" /\ prevLog[k].err
              unchanged ==
                  ~env.notExist /\ ~env.pull.err /\ ~PullStep(idx, p, env).goOn
          IN  log' = log \o <<Line(idx, "Checking", p.Name)>>
                         \o (IF failedBefore /\ unchanged
                             THEN SubSeq(es, 1, Len(es) - 1)
                                  \o BuildStep(idx, p, env)
                                  \o DispatchStep(idx, p, env)
                                  \o <<Step(idx, "return")>>
                             ELSE es)
    /\ idx' = idx + 1
    /\ UNCHANGED <<config, pc, prevLog>>

\* watchCmd, lines 166-169: one iteration of the range loop.  The external
\* commands answer with one of results.
LoopBody(results) ==
    /\ pc = "loop"
    /\ idx <= Len(config)
    /\ \E es \in {updateProject(idx, config[idx], env) : env \in Envs(results)} :
          log' = log \o <<Line(idx, "Checking", config[idx].Name)>> \o es
    /\ idx' = idx + 1
    /\ UNCHANGED <<config, pc, prevLog>>

\* A plausible slip: the loop leaves one project early.
StartSleepEarly ==
    /\ pc = "loop"
    /\ idx >= Len(config)
    /\ pc' = "sleep"
    /\ UNCHANGED <<config, idx, log, prevLog>>

\* watchCmd, line 170: the range loop is over, time.Sleep is called.
StartSleep ==
    /\ pc = "loop"
    /\ idx > Len(config)
    /\ pc' = "sleep"
    /\ UNCHANGED <<config, idx, log, prevLog>>

\* A daemon that gives up: after a pass in which a command failed there is no
\* next pass.
WakeUnlessFailed(remember) ==
    /\ pc = "sleep"
    /\ \A k \in 1..Len(log) : ~log[k].err
    /\ pc' = "loop"
    /\ idx' = 1
    /\ prevLog' = IF remember THEN log ELSE <<>>
    /\ log' = <<>>
    /\ UNCHANGED config

\* watchCmd, lines 165-171: time.Sleep returns, the next pass begins.  The
\* pass that ended is kept in prevLog when remember is set.
Wake(remember) ==
    /\ pc = "sleep"
    /\ pc' = "loop"
    /\ idx' = 1
    /\ prevLog' = IF remember THEN log ELSE <<>>
    /\ log' = <<>>
    /\ UNCHANGED config

\* The watch command past loadConfig and its banner, with the interval of
\* the default configuration and time not measured.
Watch ==
    /\ interval = DefaultInterval
    /\ clock = ClockZero
    /\ argv = <<"watch">>
    /\ banner = <<Banner(DefaultInterval)>>

Init == Start(Configs) /\ Watch

Next ==
    \/ LoopBody(PullResults) /\ Untimed
    \/ StartSleep /\ Untimed
    \/ Wake(FALSE) /\ Untimed

\* The daemon with up to MaxProjects projects.
Spec == Init /\ [][Next]_vars

InitOne == Start(SingleConfigs) /\ Watch

NextOne ==
    \/ LoopBody(AllPullResults) /\ Untimed
    \/ StartSleep /\ Untimed
    \/ Wake(TRUE) /\ Untimed

\* The daemon with one project of any type, every wording of git, and the
\* previous pass remembered.
SpecOne == InitOne /\ [][NextOne]_vars

InitTwo == Start(RememberedConfigs) /\ Watch

NextTwo ==
    \/ LoopBody(PullResults) /\ Untimed
    \/ StartSleep /\ Untimed
    \/ Wake(TRUE) /\ Untimed

\* The daemon with up to MaxRemembered projects and the previous pass remembered.
SpecTwo == InitTwo /\ [][NextTwo]_vars

\* The same daemon, every external command and the sleep returning: the one
\* goroutine of watchCmd always takes its next step.
InitLive == Start(LiveConfigs) /\ Watch

SpecLive == InitLive /\ [][Next]_vars /\ WF_vars(Next)

(***************************************************************************)
(* Reading a pass back from its log.                                       *)
(***************************************************************************)
\* Positions in the log l of the events of the given kind and name made for project i.
At(l, i, kind, op) ==
    {k \in 1..Len(l) : l[k].proj = i /\ l[k].kind = kind /\ l[k].op = op}

\* How many times the external command op was called for project i.
NumCalls(l, i, op) == Cardinality(At(l, i, "call", op))

\* A line starting with msg was printed for project i.
Printed(l, i, msg) == At(l, i, "print", msg) # {}

\* updateProject was called for project i / has returned for it (Done).
Started(l, i) == Printed(l, i, "Checking")
Returned(l, i) == At(l, i, "step", "return") # {}

\* The type switch (the dispatch step) was entered n times for project i.
NumDispatch(l, i) == Cardinality(At(l, i, "step", "switch"))

\* os.Stat reported the path of project i as missing.
PathAbsent(l, i) == \E k \in At(l, i, "call", "stat") : l[k].err

\* The pull of project i returned an error.
PullFailed(l, i) == \E k \in At(l, i, "call", "git") : l[k].err

\* The pull of project i returned without error and its output has / lacks the marker.
PullUnchanged(l, i) ==
    \E k \in At(l, i, "call", "git") : ~l[k].err /\ Contains(l[k].output, Marker)
PullChanged(l, i) ==
    \E k \in At(l, i, "call", "git") : ~l[k].err /\ ~Contains(l[k].output, Marker)

\* The lines printed by the events es, in order.
Lines(es) == SelectSeq(es, LAMBDA e : e.kind = "print")

\* The events of updateProject's call for project i.
CallOf(l, i) == SelectSeq(l, LAMBDA e : e.proj = i /\ ~(e.kind = "print" /\ e.op = "Checking"))

\* The build command / the restart of project i returned an error.
BuildFailed(l, i) == \E k \in At(l, i, "call", "bash") : l[k].err
RestartFailed(l, i) == \E k \in At(l, i, "call", "pm2") : l[k].err

\* The answers the external commands gave during project i's call.
EnvOf(l, i) ==
    [notExist   |-> PathAbsent(l, i),
     pull       |-> IF At(l, i, "call", "git") = {}
                    THEN PullResult(TRUE, OutFatal, FALSE)
                    ELSE LET k == CHOOSE k \in At(l, i, "call", "git") : TRUE
                         IN  PullResult(l[k].err, l[k].output, l[k].merged),
     buildErr   |-> BuildFailed(l, i),
     restartErr |-> RestartFailed(l, i)]

\* The printed lines tell the failed build (the failed restart) of project i:
\* they differ from the lines of the same call with that command succeeding.
BuildFailureReported(l, i) ==
    /\ BuildFailed(l, i)
    /\ Lines(CallOf(l, i)) #
         Lines(updateProject(i, config[i], [EnvOf(l, i) EXCEPT !.buildErr = FALSE]))
RestartFailureReported(l, i) ==
    /\ RestartFailed(l, i)
    /\ Lines(CallOf(l, i)) #
         Lines(updateProject(i, config[i], [EnvOf(l, i) EXCEPT !.restartErr = FALSE]))

\* The outcome of project i's reconciliation as the printed lines report it.
Outcome(l, i) ==
    IF ~Returned(l, i) THEN "None"
    ELSE IF Printed(l, i, "Path not found:") THEN "PathMissing"
    ELSE IF Printed(l, i, "Git pull failed:") THEN "SyncFailed"
    ELSE IF Printed(l, i, "No new commits for") THEN "NoChange"
    ELSE IF BuildFailureReported(l, i) THEN "BuildFailed"
    ELSE IF RestartFailureReported(l, i) THEN "RestartFailed"
    ELSE IF Printed(l, i, "Unknown type:") THEN "UnknownType"
    ELSE "Updated"

\* Consistency of the readers above: the events of each returned call are
\* those of updateProject under the answers read back from the log.
Replays ==
    \A i \in 1..Len(config) :
        Returned(log, i) => CallOf(log, i) = updateProject(i, config[i], EnvOf(log, i))

\* Nothing of the build executor or of the dispatcher happened for project i.
NoBuildNoDispatch(l, i) ==
    /\ NumCalls(l, i, "bash") = 0
    /\ NumDispatch(l, i) = 0
    /\ NumCalls(l, i, "pm2") = 0
    /\ ~Printed(l, i, "Unknown type:")

Projects == 1..Len(config)

(***************************************************************************)
(* C1.  A project whose path does not exist ends its reconciliation with   *)
(* PathMissing, and no pull, no build and no dispatch (no pm2 restart, no  *)
(* unknown-type report) is made for it in that pass.                       *)
(***************************************************************************)
C1_PathMissing ==
    \A i \in Projects :
        PathAbsent(log, i) =>
            /\ Outcome(log, i) = "PathMissing"
            /\ NumCalls(log, i, "git") = 0
            /\ NoBuildNoDispatch(log, i)

C1_Witness ==
    \E i \in Projects :
        /\ PathAbsent(log, i)
        /\ Returned(log, i)
        /\ config[i].BuildCommand # ""
        /\ config[i].Type = "pm2"

(***************************************************************************)
(* C2.  When the pull returns an output that contains the marker, the      *)
(* reconciliation ends with NoChange and neither the build nor the         *)
(* dispatch is made, whatever the type and the build command.  (A pull     *)
(* that returns an error is the case of C6.)                               *)
(***************************************************************************)
C2_NoChange ==
    \A i \in Projects :
        PullUnchanged(log, i) =>
            /\ Outcome(log, i) = "NoChange"
            /\ NoBuildNoDispatch(log, i)

C2_Witness ==
    \E i \in Projects :
        /\ \E k \in At(log, i, "call", "git") :
              ~log[k].err /\ log[k].output = OutFetchedUpToDate
        /\ Returned(log, i)
        /\ config[i].BuildCommand # ""
        /\ config[i].Type = "pm2"

(***************************************************************************)
(* C3.  When the pull returns an output without the marker and the build   *)
(* command is not empty, the build executor is called exactly once, with   *)
(* bash -c <that command> and the project's path as working directory.     *)
(***************************************************************************)
C3_BuildOnce ==
    \A i \in Projects :
        (PullChanged(log, i) /\ config[i].BuildCommand # "") =>
            /\ NumCalls(log, i, "bash") = 1
            /\ \A k \in At(log, i, "call", "bash") :
                  /\ log[k].args = <<"-c", config[i].BuildCommand>>
                  /\ log[k].dir = config[i].Path

C3_Witness ==
    \E i \in Projects :
        /\ \E k \in At(log, i, "call", "git") :
              ~log[k].err /\ log[k].output = OutOldNoOp
        /\ config[i].BuildCommand # ""
        /\ NumCalls(log, i, "bash") = 1

(***************************************************************************)
(* C4.  For a project whose pull brought a change, the dispatch step (the  *)
(* type switch, and for pm2 the restart) is made exactly once, whether the *)
(* build succeeded, failed or was skipped.                                 *)
(***************************************************************************)
C4_DispatchOnce ==
    \A i \in Projects :
        PullChanged(log, i) =>
            /\ NumDispatch(log, i) = 1
            /\ config[i].Type = "pm2" => NumCalls(log, i, "pm2") = 1
            /\ config[i].Type \notin {"pm2", "docker", "static"} =>
                  Cardinality(At(log, i, "print", "Unknown type:")) = 1

C4_Witness ==
    \E i \in Projects :
        /\ PullChanged(log, i)
        /\ \E k \in At(log, i, "call", "bash") : log[k].err
        /\ NumCalls(log, i, "pm2") = 1
        /\ NumDispatch(log, i) = 1

(***************************************************************************)
(* C5.  For a changed project of a type other than docker, pm2 and static, *)
(* the dispatch reports "Unknown type", makes no pm2 restart and nothing   *)
(* else (the function returns right after the report), and the daemon      *)
(* goes on.                                                                *)
(***************************************************************************)
C5_UnknownType ==
    \A i \in Projects :
        (PullChanged(log, i) /\ config[i].Type \notin {"docker", "pm2", "static"}) =>
            /\ Outcome(log, i) = "UnknownType"
            /\ NumCalls(log, i, "pm2") = 0
            /\ \A k \in At(log, i, "step", "switch") :
                  /\ k + 2 <= Len(log)
                  /\ log[k + 1] = Line(i, "Unknown type:", config[i].Type)
                  /\ log[k + 2] = Step(i, "return")
            /\ pc \in {"loop", "sleep"}
            /\ ENABLED NextOne

C5_Witness ==
    \E i \in Projects :
        /\ PullChanged(log, i)
        /\ config[i].Type = "vm"
        /\ Printed(log, i, "Unknown type:")
        /\ pc = "sleep"

(***************************************************************************)
(* C6.  When the pull returns an error, the reconciliation ends with       *)
(* SyncFailed: updateProject returns to the loop, which goes on, and       *)
(* neither the build nor the dispatch is made for the project.             *)
(***************************************************************************)
C6_SyncFailed ==
    \A i \in Projects :
        PullFailed(log, i) =>
            /\ Outcome(log, i) = "SyncFailed"
            /\ NoBuildNoDispatch(log, i)
            /\ idx > i
            /\ pc \in {"loop", "sleep"}

C6_Witness ==
    \E i \in Projects :
        /\ PullFailed(log, i)
        /\ Returned(log, i)
        /\ config[i].BuildCommand # ""
        /\ config[i].Type = "pm2"
        /\ i < Len(config)
        /\ Returned(log, i + 1)

\* Every configured project has been reconciled, exactly once, in the pass l.
AllDone(l) ==
    \A i \in Projects :
        /\ Cardinality(At(l, i, "print", "Checking")) = 1
        /\ Cardinality(At(l, i, "step", "return")) = 1

(***************************************************************************)
(* C7.  In a pass every configured project is reconciled, whatever the     *)
(* outcomes of the projects before it: when the loop sleeps every project  *)
(* has reached Done, and, the external commands terminating, every pass    *)
(* that starts gets there.                                                 *)
(***************************************************************************)
C7_EveryProjectDone ==
    /\ [](pc = "sleep" => AllDone(log))
    /\ (pc = "loop" /\ idx = 1) ~> (pc = "sleep" /\ AllDone(log))

C7_Witness ==
    /\ pc = "sleep"
    /\ Len(config) = 3
    /\ Outcome(log, 1) = "PathMissing"
    /\ Outcome(log, 2) = "SyncFailed"
    /\ PullChanged(log, 3)
    /\ BuildFailed(log, 3)
    /\ Returned(log, 3)

(***************************************************************************)
(* C8.  Passes are sequential and never overlap: the events of a pass are  *)
(* those of the projects in configuration order, each reconciled once, one *)
(* at a time; the loop sleeps only when every project is Done; and a new   *)
(* pass starts only out of the sleep that follows a complete pass.         *)
(***************************************************************************)
C8_InOrder ==
    /\ \A k \in 1..(Len(log) - 1) : log[k].proj <= log[k + 1].proj
    /\ \A i \in Projects :
          /\ Cardinality(At(log, i, "print", "Checking")) = (IF i < idx THEN 1 ELSE 0)
          /\ Cardinality(At(log, i, "step", "return")) = (IF i < idx THEN 1 ELSE 0)
    /\ \A k \in 1..Len(log) : log[k].proj \in 1..(idx - 1)
    /\ pc = "sleep" => AllDone(log)
    /\ prevLog # <<>> => AllDone(prevLog)

C8_PassStep ==
    /\ (pc # "sleep" /\ pc' = "sleep") => (AllDone(log) /\ log' = log)
    /\ log' # log =>
          \/ /\ pc = "sleep"
             /\ AllDone(log)
             /\ log' = <<>>
             /\ prevLog' = log
          \/ /\ pc = "loop"
             /\ Len(log') > Len(log)
             /\ SubSeq(log', 1, Len(log)) = log
             /\ \A k \in (Len(log) + 1)..Len(log') : log'[k].proj = idx
             /\ idx' = idx + 1
             /\ prevLog' = prevLog

C8_Sequential == []C8_InOrder /\ [][C8_PassStep]_vars

C8_Witness ==
    /\ Len(config) = 2
    /\ AllDone(prevLog)
    /\ pc = "loop"
    /\ idx = 2
    /\ Returned(log, 1)
    /\ ~Started(log, 2)

(***************************************************************************)
(* C9.  One pass over A (static, unchanged), B (pm2, changed, build        *)
(* succeeds), C (docker, changed, build fails) reports A: NoChange,        *)
(* B: Updated, C: BuildFailed, completes for all three, and restarts B     *)
(* once and neither A nor C.                                               *)
(***************************************************************************)
C9_Scenario ==
    /\ config = <<ProjA, ProjB, ProjC>>
    /\ pc = "sleep"
    /\ PullUnchanged(log, 1)
    /\ PullChanged(log, 2) /\ ~BuildFailed(log, 2) /\ ~RestartFailed(log, 2)
    /\ PullChanged(log, 3) /\ BuildFailed(log, 3)

C9_EndToEnd ==
    C9_Scenario =>
        /\ Outcome(log, 1) = "NoChange"
        /\ Outcome(log, 2) = "Updated"
        /\ Outcome(log, 3) = "BuildFailed"
        /\ AllDone(log)
        /\ NumCalls(log, 1, "pm2") = 0
        /\ NumCalls(log, 2, "pm2") = 1
        /\ NumCalls(log, 3, "pm2") = 0

(***************************************************************************)
(* C10.  Two consecutive passes with no upstream change.                   *)
(***************************************************************************)
\* No pull of the pass l merged new upstream commits.
NoUpstreamChange(l) ==
    \A k \in 1..Len(l) : (l[k].kind = "call" /\ l[k].op = "git") => ~l[k].merged

\* In the pass l every path exists and every pull succeeds and prints the marker.
EveryPullUnchanged(l) ==
    \A i \in Projects : ~PathAbsent(l, i) /\ PullUnchanged(l, i)

\* Every project ends the pass l with NoChange, without build and dispatch.
AllNoChange(l) ==
    \A i \in Projects : Outcome(l, i) = "NoChange" /\ NoBuildNoDispatch(l, i)

TwoPassesDone == pc = "sleep" /\ prevLog # <<>>

\* C10 as stated: for any project list, two consecutive passes with no
\* upstream change yield NoChange for every project in both passes, with no
\* build and no dispatch in either.
C10_AsStated ==
    (TwoPassesDone /\ NoUpstreamChange(prevLog) /\ NoUpstreamChange(log)) =>
        (AllNoChange(prevLog) /\ AllNoChange(log))

\* C10 amended: the same for two consecutive passes in each of which every
\* project's path exists and every pull succeeds with an output that
\* contains the marker.
C10_Idempotent ==
    (TwoPassesDone /\ NoUpstreamChange(prevLog) /\ NoUpstreamChange(log)
       /\ EveryPullUnchanged(prevLog) /\ EveryPullUnchanged(log)) =>
        (AllNoChange(prevLog) /\ AllNoChange(log))

C10_Witness ==
    /\ TwoPassesDone
    /\ config = <<ProjC, ProjA>>
    /\ NoUpstreamChange(prevLog) /\ NoUpstreamChange(log)
    /\ EveryPullUnchanged(prevLog) /\ EveryPullUnchanged(log)

(***************************************************************************)
(* C11.  Every outcome is reported.                                        *)
(***************************************************************************)

\* C11: every reconciliation outcome is reported on the output stream; in
\* particular a project whose build command failed has a reported build
\* failure, and a project whose pm2 restart failed has a reported restart
\* failure.  The code discards both errors (lines 258 and 267), so the
\* statement fails on it.
C11_EveryOutcomeReported ==
    \A i \in Projects :
        Returned(log, i) =>
            /\ BuildFailed(log, i) => BuildFailureReported(log, i)
            /\ RestartFailed(log, i) => RestartFailureReported(log, i)

(***************************************************************************)
(* C12.  The interval and the spacing of passes.                           *)
(***************************************************************************)

\* The configurations of the timed runs.
TimedConfigs == SeqsUpTo({ProjA}, MaxProjects)

\* One call of updateProject takes between 0 and MaxDuration minutes.
Elapse ==
    /\ \E d \in 0..MaxDuration : clock' = [clock EXCEPT !.elapsed = @ + d]
    /\ UNCHANGED <<interval, argv, banner>>

\* time.Sleep(interval minutes) returns after the interval, counted from the
\* end of the pass (line 170); the next pass starts then.
Slept ==
    /\ clock' = [elapsed  |-> 0,
                 duration |-> clock.elapsed,
                 gap      |-> clock.elapsed + interval,
                 woke     |-> TRUE]
    /\ UNCHANGED <<interval, argv, banner>>

InitTimed ==
    /\ Start(TimedConfigs)
    /\ interval \in 0..MaxInterval
    /\ clock = ClockZero
    /\ argv = <<"watch">>
    /\ banner = <<Banner(interval)>>

NextTimed ==
    \/ LoopBody(PullResults) /\ Elapse
    \/ StartSleep /\ Untimed
    \/ Wake(FALSE) /\ Slept

SpecTimed == InitTimed /\ [][NextTimed]_vars

\* C12: when the previous pass took less than the interval, the current pass
\* started exactly the interval after the start of the previous one; in any
\* case it started no earlier than the previous pass ended.  The code sleeps
\* the whole interval after the end of the pass, so the first part fails on
\* it whenever the pass took any time.
C12_StartToStart ==
    clock.woke =>
        /\ clock.duration < interval => clock.gap = interval
        /\ clock.gap >= clock.duration

(***************************************************************************)
(* C13.  The daemon never exits.                                           *)
(***************************************************************************)

\* C13: the daemon loop never returns, whatever the outcomes of a pass: in
\* every state it has a next step, and, the external commands terminating,
\* it sleeps infinitely often and starts a new pass infinitely often.
C13_PassesForever ==
    /\ [](ENABLED Next)
    /\ []<>(pc = "sleep")
    /\ []<>(pc = "loop" /\ idx = 1 /\ log = <<>>)

\* A pass has ended in which every project failed: the first one's path is
\* missing and the pull, the build or the restart of each of the others
\* failed.
C13_Witness ==
    /\ pc = "sleep"
    /\ Len(config) = MaxProjects
    /\ PathAbsent(log, 1)
    /\ \A i \in 2..Len(config) :
           PullFailed(log, i) \/ BuildFailed(log, i) \/ RestartFailed(log, i)

(***************************************************************************)
(* The build command (lines 175-202).                                      *)
(***************************************************************************)

\* A second definition named A, with another path, type and build command.
ProjA2 == Project("A", "/srv/a2", "pm2", "npm run build")

\* Configurations in which a name may be defined more than once.
DupConfigs == SeqsUpTo({ProjA, ProjA2, ProjC}, MaxProjects)

\* What args[0] may be: a name defined with and without a build command, a
\* name whose definitions all have one, a name that is not configured.
Names == {"A", "C", "Z"}

\* The definitions named name, in configuration order.
Matches(projects, name) == {i \in 1..Len(projects) : projects[i].Name = name}

\* A plausible slip: the loop keeps scanning and the last definition wins.
LastMatch(projects, name) ==
    IF Matches(projects, name) = {} THEN 0
    ELSE CHOOSE i \in Matches(projects, name) :
             \A j \in Matches(projects, name) : j <= i

\* The project the loop of lines 183-199 stops at: the first one whose name
\* is projectName (both branches under the comparison return), 0 when the
\* loop runs to its end.
FirstMatch(projects, name) ==
    IF Matches(projects, name) = {} THEN 0
    ELSE CHOOSE i \in Matches(projects, name) :
             \A j \in Matches(projects, name) : i <= j

\* A plausible slip: the empty build command is not checked for.
buildCmdNoEmptyCheck(projects, name, err) ==
    LET i == FirstMatch(projects, name)
    IN  IF i = 0
        THEN <<Line(0, "Project %s not found in configuration", name)>>
        ELSE <<Line(i, "Building project %s...", name)>>
             \o runBuildCommand(i, projects[i].BuildCommand, projects[i].Path, err)
             \o <<Line(i, IF err THEN "Build failed for %s: %v"
                                 ELSE "Build completed for %s", name)>>

\* buildCmd, lines 180-200: what it prints and calls, err being the answer
\* of the build command.
buildCmd(projects, name, err) ==
    LET i == FirstMatch(projects, name)
    IN  IF i = 0
        THEN <<Line(0, "Project %s not found in configuration", name)>>
        ELSE IF projects[i].BuildCommand = ""
        THEN <<Line(i, "No build command configured for project %s", name)>>
        ELSE <<Line(i, "Building project %s...", name)>>
             \o runBuildCommand(i, projects[i].BuildCommand, projects[i].Path, err)
             \o <<Line(i, IF err THEN "Build failed for %s: %v"
                                 ELSE "Build completed for %s", name)>>

\* The command lines of build: no argument, one, or more.
ArgLists == {<<"build">> \o a : a \in SeqsUpTo(Names, MaxArgs)}

\* The intervalMinutes a configuration file may give: none (the zero value
\* stays), or the one of the file written by init.
FileIntervals == {0, DefaultInterval}

\* main, lines 49-55: a command is about to run; nothing is loaded yet.
StartMain(argvs) ==
    /\ argv \in argvs
    /\ pc = "main"
    /\ config = <<>>
    /\ idx = 1
    /\ log = <<>>
    /\ prevLog = <<>>
    /\ interval = 0
    /\ clock = ClockZero
    /\ banner = <<>>

\* Line 178, Args: cobra.ExactArgs(1): with another number of arguments Run
\* is not called, and main drops the error of Execute (line 55).  Nothing of
\* this file is printed or called; the message of the library is left out.
RejectArgs ==
    /\ pc = "main"
    /\ argv[1] = "build"
    /\ Len(cmdArgs) # 1
    /\ pc' = "rejected"
    /\ UNCHANGED <<config, idx, log, prevLog, interval, clock, argv, banner>>

\* Run is called (buildCmd with one argument, watchCmd with any).
RunAccepted == argv[1] = "build" => Len(cmdArgs) = 1

\* loadConfig, lines 204-221, where os.ReadFile fails: the error is printed
\* and the process exits with status 1 (lines 212-216).
LoadConfigFails ==
    /\ pc = "main"
    /\ RunAccepted
    /\ log' = <<Line(0, "Failed to read config:", "err"), Step(0, "os.Exit(1)")>>
    /\ pc' = "failed"
    /\ UNCHANGED <<config, idx, prevLog, interval, clock, argv, banner>>

\* loadConfig, lines 204-221, where the file is read: the projects and the
\* interval are those of the file, none and 0 when yaml.Unmarshal fails,
\* its error being dropped (line 219).  watchCmd prints its banner (line
\* 163) and goes on to its loop, buildCmd goes on to its own.
LoadConfig(configs) ==
    /\ pc = "main"
    /\ RunAccepted
    /\ config' \in configs
    /\ interval' \in FileIntervals
    /\ banner' = IF argv[1] = "watch" THEN <<Banner(interval')>> ELSE <<>>
    /\ pc' = IF argv[1] = "watch" THEN "loop" ELSE "build"
    /\ UNCHANGED <<idx, log, prevLog, clock, argv>>

\* buildCmd, lines 183-200, runs and the process ends.
BuildCmd ==
    /\ pc = "build"
    /\ \E es \in {buildCmd(config, projectName, err) : err \in BOOLEAN} :
           log' = es
    /\ pc' = "exit"
    /\ UNCHANGED <<config, idx, prevLog, interval, clock, argv, banner>>

\* Either command, from main on, on configurations that may define a name
\* twice.
InitCli == StartMain({<<"watch">>} \cup ArgLists)

NextCli ==
    \/ RejectArgs
    \/ LoadConfigFails
    \/ LoadConfig(DupConfigs)
    \/ LoopBody(PullResults) /\ Untimed
    \/ StartSleep /\ Untimed
    \/ Wake(FALSE) /\ Untimed
    \/ BuildCmd

SpecCli == InitCli /\ [][NextCli]_vars

\* The lines of buildCmd that tell the result.
ResultLines ==
    {"Build completed for %s", "Build failed for %s: %v",
     "Project %s not found in configuration",
     "No build command configured for project %s"}

\* The result lines printed, and the calls of the build executor made.
Results(l) == SelectSeq(l, LAMBDA e : e.kind = "print" /\ e.op \in ResultLines)
BuildCalls(l) == SelectSeq(l, LAMBDA e : e.kind = "call" /\ e.op = "bash")

(***************************************************************************)
(* C14.  The on-demand build reports exactly one result.                   *)
(***************************************************************************)

\* An invocation of the build command has ended: Run returned, loadConfig
\* exited, or the arguments were rejected.
BuildEnded == argv[1] = "build" /\ pc \in {"exit", "failed", "rejected"}

\* C14 as stated: every invocation of the build command prints exactly one
\* result line; taken here for the invocations with one argument only, the
\* ones whose Run is called.
C14_AsStated ==
    (BuildEnded /\ Len(cmdArgs) = 1) => Len(Results(log)) = 1

\* C14 amended: an invocation of the build command with one argument whose
\* configuration is read prints exactly one result line, naming the project
\* asked for: not found when no definition has that name, no build command
\* when the definitions of that name have none (and in both cases the build
\* executor is not called), and, when they all have one, after exactly one
\* call of the build executor, failure if the call failed and success if it
\* did not.  An invocation whose configuration cannot be read prints that
\* and exits with status 1, and one with another number of arguments does
\* not run; neither prints a result line or calls the build executor.
C14_OneResult ==
    /\ pc = "exit" =>
        LET named == Matches(config, projectName)
        IN  /\ Len(Results(log)) = 1
            /\ Results(log)[1].args = <<projectName>>
            /\ named = {} =>
                   /\ Results(log)[1].op = "Project %s not found in configuration"
                   /\ BuildCalls(log) = <<>>
            /\ (named # {} /\ \A i \in named : config[i].BuildCommand = "") =>
                   /\ Results(log)[1].op = "No build command configured for project %s"
                   /\ BuildCalls(log) = <<>>
            /\ (named # {} /\ \A i \in named : config[i].BuildCommand # "") =>
                   /\ Len(BuildCalls(log)) = 1
                   /\ Results(log)[1].op =
                          IF BuildCalls(log)[1].err THEN "Build failed for %s: %v"
                                                    ELSE "Build completed for %s"
    /\ pc = "failed" =>
           /\ Lines(log) = <<Line(0, "Failed to read config:", "err")>>
           /\ log[Len(log)] = Step(0, "os.Exit(1)")
           /\ BuildCalls(log) = <<>>
    /\ pc = "rejected" =>
           /\ Len(cmdArgs) # 1
           /\ log = <<>>
    /\ (BuildEnded /\ Len(Results(log)) = 1) => pc = "exit"

\* The build of a project with a build command has failed and was reported.
C14_Witness ==
    /\ pc = "exit"
    /\ projectName = "C"
    /\ Len(BuildCalls(log)) = 1
    /\ BuildCalls(log)[1].err
    /\ Results(log)[1].op = "Build failed for %s: %v"

(***************************************************************************)
(* C20.  Two projects of the same name.                                    *)
(***************************************************************************)

\* Project i is the first / the last definition of its name.
IsFirstOfName(i) == \A j \in Matches(config, config[i].Name) : i <= j
IsLastOfName(i) == \A j \in Matches(config, config[i].Name) : j <= i

\* External commands were called for project i.
ActedOn(l, i) == \E k \in 1..Len(l) : l[k].proj = i /\ l[k].kind = "call"

\* C20 as stated: the last definition of a name wins.  The build command acts
\* on the last definition named args[0], and a pass acts for a name only on
\* its last definition.
C20_LastMatchWins ==
    /\ (pc = "exit" /\ Matches(config, projectName) # {}) =>
           \A k \in 1..Len(log) :
               /\ config[log[k].proj].Name = projectName
               /\ IsLastOfName(log[k].proj)
    /\ pc = "sleep" =>
           \A i \in Projects : ActedOn(log, i) => IsLastOfName(i)

\* C20: the first definition of a name wins the build command, and a pass
\* takes every definition.  The build command acts on the first definition
\* named args[0]: its lines and its call are those of that definition, the
\* call running that definition's build command in that definition's path,
\* and no call is made when that definition has no build command.  In a pass
\* every definition is reconciled, each with its own path, build command,
\* type and name, whether or not its name occurs again.
C20_FirstMatchWins ==
    /\ (pc = "exit" /\ Matches(config, projectName) # {}) =>
           /\ log # <<>>
           /\ \A k \in 1..Len(log) :
                  /\ config[log[k].proj].Name = projectName
                  /\ IsFirstOfName(log[k].proj)
                  /\ log[k].kind = "call" =>
                         /\ config[log[k].proj].BuildCommand # ""
                         /\ log[k].args = <<"-c", config[log[k].proj].BuildCommand>>
                         /\ log[k].dir = config[log[k].proj].Path
    /\ pc = "sleep" =>
           \A i \in Projects :
               /\ Returned(log, i)
               /\ \A k \in At(log, i, "call", "stat") :
                      log[k].args = <<config[i].Path>>
               /\ \A k \in At(log, i, "call", "git") :
                      log[k].args = <<"-C", config[i].Path, "pull">>
               /\ \A k \in At(log, i, "call", "bash") :
                      /\ log[k].args = <<"-c", config[i].BuildCommand>>
                      /\ log[k].dir = config[i].Path
               /\ \A k \in At(log, i, "call", "pm2") :
                      /\ config[i].Type = "pm2"
                      /\ log[k].args = <<"restart", config[i].Name>>
               /\ NumCalls(log, i, "stat") = 1

\* The build of A was asked for where A is defined first without and then
\* with a build command: nothing was built.
C20_Witness ==
    /\ pc = "exit"
    /\ projectName = "A"
    /\ Len(config) >= 2
    /\ config[1] = ProjA
    /\ config[2] = ProjA2
    /\ BuildCalls(log) = <<>>
    /\ Len(Results(log)) = 1
    /\ Results(log)[1].op = "No build command configured for project %s"

(***************************************************************************)
(* C15.  The pm2 restart.                                                  *)
(***************************************************************************)

\* C15: in a pass pm2 restart is called for a project exactly when its pull
\* succeeded with a change and its type is pm2, then once, with the
\* project's name as the process to restart, whether or not the build
\* failed; for a project of type docker or static pm2 is never called.
C15_RestartIffChangedPm2 ==
    \A i \in Projects :
        /\ NumCalls(log, i, "pm2") =
               (IF PullChanged(log, i) /\ config[i].Type = "pm2" THEN 1 ELSE 0)
        /\ \A k \in At(log, i, "call", "pm2") :
               log[k].args = <<"restart", config[i].Name>>
        /\ config[i].Type \in {"docker", "static"} => NumCalls(log, i, "pm2") = 0

\* A pm2 project was restarted after its build failed, and the restart failed.
C15_Witness ==
    \E i \in Projects :
        /\ config[i].Type = "pm2"
        /\ PullChanged(log, i)
        /\ BuildFailed(log, i)
        /\ NumCalls(log, i, "pm2") = 1
        /\ RestartFailed(log, i)

(***************************************************************************)
(* C16.  A changed project without a build command.                        *)
(***************************************************************************)

\* C16: for a project whose pull succeeded with a change and whose build
\* command is empty, the build executor is not called and nothing is printed
\* about a build; the step that follows the printing of the pull's output is
\* the type switch, which is entered exactly once.
C16_NoBuildCommand ==
    \A i \in Projects :
        (PullChanged(log, i) /\ config[i].BuildCommand = "") =>
            /\ NumCalls(log, i, "bash") = 0
            /\ ~Printed(log, i, "-> Running build command for")
            /\ NumDispatch(log, i) = 1
            /\ \A k \in At(log, i, "call", "git") :
                   /\ log[k + 1].kind = "print"
                   /\ log[k + 1].op = ""
                   /\ log[k + 2] = Step(i, "switch")

\* A pm2 project without a build command was pulled with a change and
\* restarted.
C16_Witness ==
    \E i \in Projects :
        /\ PullChanged(log, i)
        /\ config[i].BuildCommand = ""
        /\ config[i].Type = "pm2"
        /\ NumCalls(log, i, "pm2") = 1
        /\ NumCalls(log, i, "bash") = 0

(***************************************************************************)
(* C17.  The order of the steps of one reconciliation.                     *)
(***************************************************************************)

\* The places in l of the dispatch of project i: the type switch and what
\* its branches do.
DispatchAt(l, i) ==
    At(l, i, "step", "switch") \cup At(l, i, "call", "pm2")
        \cup At(l, i, "print", "Unknown type:")

\* C17: in the events of a pass, for every project, a pull comes after a
\* path check that found the path; a build comes after a pull that returned
\* no error and a change; the dispatch comes after such a pull and after
\* the build, if there is one; and the return is the last event of the
\* project.
C17_StepOrder ==
    \A i \in Projects :
        /\ \A g \in At(log, i, "call", "git") :
               \E s \in At(log, i, "call", "stat") : s < g /\ ~log[s].err
        /\ \A b \in At(log, i, "call", "bash") :
               \E g \in At(log, i, "call", "git") :
                   g < b /\ ~log[g].err /\ ~Contains(log[g].output, Marker)
        /\ \A d \in DispatchAt(log, i) :
               /\ \E g \in At(log, i, "call", "git") :
                      g < d /\ ~log[g].err /\ ~Contains(log[g].output, Marker)
               /\ \A b \in At(log, i, "call", "bash") : b < d
        /\ \A r \in At(log, i, "step", "return") :
               \A k \in 1..Len(log) : log[k].proj = i => k <= r

\* A project went through all four steps, path check, pull, build and
\* restart, and the pass went on to the next project.
C17_Witness ==
    /\ Len(config) >= 2
    /\ NumCalls(log, 1, "stat") = 1
    /\ PullChanged(log, 1)
    /\ NumCalls(log, 1, "bash") = 1
    /\ NumCalls(log, 1, "pm2") = 1
    /\ Returned(log, 1)
    /\ Returned(log, 2)

(***************************************************************************)
(* C18.  No forced rebuild after a failed build.                           *)
(***************************************************************************)

\* The pull of project i in the pass l, if any, merged no upstream commit.
NothingNewFor(l, i) == \A k \in At(l, i, "call", "git") : ~l[k].merged

\* The build of project i failed in the previous pass and nothing changed
\* upstream before the pass that has just ended.
FailedThenNothingNew(i) ==
    /\ TwoPassesDone
    /\ BuildFailed(prevLog, i)
    /\ NothingNewFor(log, i)

\* C18 as stated: if a project's build fails in a pass and there is no
\* upstream change before the next pass, the next pass yields NoChange for
\* the project, without build and dispatch.
C18_AsStated ==
    \A i \in Projects :
        FailedThenNothingNew(i) =>
            (Outcome(log, i) = "NoChange" /\ NoBuildNoDispatch(log, i))

\* C18 amended: the same where, in the next pass, the project's path exists
\* and its pull succeeds with an output that contains the marker; and the
\* events of the next pass are those of updateProject on the project and the
\* answers of that pass alone, whatever happened in the pass before.
C18_NoForcedRebuild ==
    \A i \in Projects :
        /\ (FailedThenNothingNew(i) /\ ~PathAbsent(log, i) /\ PullUnchanged(log, i)) =>
               (Outcome(log, i) = "NoChange" /\ NoBuildNoDispatch(log, i))
        /\ (TwoPassesDone /\ BuildFailed(prevLog, i)) =>
               CallOf(log, i) = updateProject(i, config[i], EnvOf(log, i))

\* A build failed, and the next pass found nothing new for the project.
C18_Witness ==
    \E i \in Projects :
        /\ FailedThenNothingNew(i)
        /\ ~PathAbsent(log, i)
        /\ PullUnchanged(log, i)
        /\ Outcome(log, i) = "NoChange"

(***************************************************************************)
(* C19.  No automatic retry.                                               *)
(***************************************************************************)

\* In the pass l each of pull, build and restart was called at most once for
\* project i.
AtMostOnce(l, i) ==
    /\ NumCalls(l, i, "git") <= 1
    /\ NumCalls(l, i, "bash") <= 1
    /\ NumCalls(l, i, "pm2") <= 1

\* C19: in a pass each of pull, build and restart is called at most once
\* for a project, also when the call failed; and a project whose pull failed
\* in a pass is taken up again by the next pass, not before: the next pass
\* checks its path once and, the path being there, pulls once.  (The path
\* check belongs to the synchronisation: with the path gone there is nothing
\* to pull.)
C19_NoRetry ==
    \A i \in Projects :
        /\ AtMostOnce(log, i)
        /\ AtMostOnce(prevLog, i)
        /\ PullFailed(log, i) => NumCalls(log, i, "git") = 1
        /\ (TwoPassesDone /\ PullFailed(prevLog, i)) =>
               /\ NumCalls(prevLog, i, "git") = 1
               /\ NumCalls(log, i, "stat") = 1
               /\ NumCalls(log, i, "git") = (IF PathAbsent(log, i) THEN 0 ELSE 1)

\* The pull of a project failed in two passes in a row, once in each.
C19_Witness ==
    \E i \in Projects :
        /\ TwoPassesDone
        /\ PullFailed(prevLog, i)
        /\ PullFailed(log, i)
        /\ NumCalls(log, i, "git") = 1
====
